---- MODULE Spec2Model ----
(***************************************************************************)
(* State-machine models of three of the repository's benchmarking tools:   *)
(*   hackbench    (src/hackbench/hackbench.c, lines 1-355)                  *)
(*   pipe-latency (src/pipe-latency/pipe-latency.c)                         *)
(*   pipebench    (src/hackbench/hackbench.c, lines 357-708)                *)
(* Each tool has its own specification over the shared variable tuple; the *)
(* variables of the tools that are not running stay at their idle values.  *)
(***************************************************************************)
EXTENDS Integers, Sequences, FiniteSets, TLC

(* ---------------------------- model bounds ----------------------------- *)
\* hackbench: num_groups * num_fds <= MaxPairs, loops * datasize <= MaxBytes,
\* and an fdpair buffers at most ChanCap bytes
MaxPairs == 2
MaxBytes == 2
ChanCap == 1

VARIABLES
    (* hackbench *)
    process_mode, num_groups, num_fds, loops, datasize,
    child_tab, total_children, signal_caught,
    mainpc, mi, gk,  \* main's position, its loop counter i, group()'s worker counter
    handler,         \* disposition of SIGINT / SIGTERM in the main process
    wpc, wdone, wterm, \* per worker: position, bytes transferred, SIGTERM pending
    chan,            \* bytes buffered on each receiver's fdpair
    readyWrites, readyReads, wakebuf,
    killed, ret, timePrinted,
    start, stop,     \* main's two timespecs, as readings of MonoTime below
    (* pipe-latency *)
    threaded, pl_loops,
    plmain, plt,     \* main's position and its loop counter t
    td_pc, td_i, td_m, \* per worker: position, loop counter i, local m
    pipes,           \* the ints buffered in pipe_1 and pipe_2
    nwrites,         \* per worker: writes completed so far
    (* pipebench *)
    argv, input, bufsize,
    errout, quiet, summary, fancy,
    pbpc, done, feof_stdin, inpos, buffer, n, datalen, last_datalen, speed,
    out, statuslog, clock, tv, tv2, faults, readFailed, writeFailed, pbret

hbvars == <<process_mode, num_groups, num_fds, loops, datasize,
            child_tab, total_children, signal_caught, mainpc, mi, gk, handler,
            wpc, wdone, wterm, chan, readyWrites, readyReads, wakebuf,
            killed, ret, timePrinted, start, stop>>

plvars == <<threaded, pl_loops, plmain, plt, td_pc, td_i, td_m, pipes, nwrites>>

pbvars == <<argv, input, bufsize, errout, quiet, summary, fancy,
            pbpc, done, feof_stdin, inpos, buffer, n, datalen, last_datalen, speed,
            out, statuslog, clock, tv, tv2, faults, readFailed, writeFailed, pbret>>

vars == <<hbvars, plvars, pbvars>>

\* what a hackbench step never changes: its options and the other tools
cfg == <<process_mode, num_groups, num_fds, loops, datasize, plvars, pbvars>>

\* main's locals start and stop (line 260), written only by get_mono_time
stamps == <<start, stop>>

(* ============================= hackbench =============================== *)

MaxWorkers == 2 * MaxPairs
Slots == 0 .. (MaxWorkers - 1)
Signals == {"SIGINT", "SIGTERM"}

\* what reading .pid of a slot that holds a pthread_t can yield: bits that
\* no fork() of this run returned
OtherPids == {0, -1}

\* pid that fork() returns for the worker stored in slot s
PidOf(s) == s + 1

NWorkers == num_groups * 2 * num_fds
GroupOf(s) == s \div (2 * num_fds)
IsReceiver(s) == (s % (2 * num_fds)) < num_fds
\* slot of the receiver that owns out_fds[j] of group g
ReceiverSlot(g, j) == g * 2 * num_fds + j

Forked == {s \in Slots : wpc[s] # "none"}

\* a timespec that get_mono_time has not filled in yet
NotRead == -1

\* get_mono_time, lines 254-256: clock_gettime(CLOCK_MONOTONIC).  The clock is
\* read in units of the workers' progress: the reading is the number of data
\* bytes the workers have written and read so far, so two readings are equal
\* exactly when no data read or write happened between them.
RECURSIVE BytesMoved(_)
BytesMoved(k) == IF k = 0 THEN 0 ELSE wdone[k - 1] + BytesMoved(k - 1)
MonoTime == BytesMoved(MaxWorkers)
Min(a, b) == IF a < b THEN a ELSE b

\* the threads of a dead or exited process cannot run; forked children can
Alive(s) == process_mode \/ mainpc \notin {"done", "killed"}

\* hackbench is not running
HBIdle ==
    /\ process_mode = TRUE
    /\ num_groups = 0
    /\ num_fds = 0
    /\ loops = 0
    /\ datasize = 0
    /\ child_tab = [s \in Slots |-> [tag |-> "zero", id |-> 0]]
    /\ total_children = 0
    /\ signal_caught = FALSE
    /\ mainpc = "idle"
    /\ mi = 0
    /\ gk = 0
    /\ handler = [g \in Signals |-> "SIG_DFL"]
    /\ wpc = [s \in Slots |-> "none"]
    /\ wdone = [s \in Slots |-> 0]
    /\ wterm = [s \in Slots |-> FALSE]
    /\ chan = [s \in Slots |-> 0]
    /\ readyWrites = 0
    /\ readyReads = 0
    /\ wakebuf = 0
    /\ killed = {}
    /\ ret = -1
    /\ timePrinted = FALSE
    /\ start = NotRead
    /\ stop = NotRead

\* pipe-latency is not running
PLIdle ==
    /\ threaded = FALSE
    /\ pl_loops = 0
    /\ plmain = "idle"
    /\ plt = 0
    /\ td_pc = [t \in 0 .. 1 |-> "none"]
    /\ td_i = [t \in 0 .. 1 |-> 0]
    /\ td_m = [t \in 0 .. 1 |-> 0]
    /\ pipes = [q \in 1 .. 2 |-> <<>>]
    /\ nwrites = [t \in 0 .. 1 |-> 0]

\* pipebench is not running
PBIdle ==
    /\ argv = <<>>
    /\ input = <<>>
    /\ bufsize = 0
    /\ errout = 0
    /\ quiet = 0
    /\ summary = 1
    /\ fancy = 1
    /\ pbpc = "idle"
    /\ done = 0
    /\ feof_stdin = FALSE
    /\ inpos = 0
    /\ buffer = <<>>
    /\ n = 0
    /\ datalen = 0
    /\ last_datalen = 0
    /\ speed = 0
    /\ out = <<>>
    /\ statuslog = <<>>
    /\ clock = 0
    /\ tv = 0
    /\ tv2 = 0
    /\ faults = 0
    /\ readFailed = FALSE
    /\ writeFailed = FALSE
    /\ pbret = -1

\* hackbench after main has parsed its options, allocated child_tab, created
\* readyfds and wakefds and installed sigcatcher (lines 266-312)
HBInit ==
    /\ PLIdle
    /\ PBIdle
    /\ process_mode \in BOOLEAN
    /\ num_groups \in 1 .. MaxPairs
    /\ num_fds \in 1 .. MaxPairs
    /\ num_groups * num_fds <= MaxPairs
    /\ loops \in 1 .. MaxBytes
    /\ datasize \in 1 .. MaxBytes
    /\ loops * datasize <= MaxBytes
    /\ child_tab = [s \in Slots |-> [tag |-> "zero", id |-> 0]]
    /\ total_children = 0
    /\ signal_caught = FALSE
    /\ mainpc = "setjmp"
    /\ mi = 0
    /\ gk = 0
    /\ handler = [g \in Signals |-> "sigcatcher"]
    /\ wpc = [s \in Slots |-> "none"]
    /\ wdone = [s \in Slots |-> 0]
    /\ wterm = [s \in Slots |-> FALSE]
    /\ chan = [s \in Slots |-> 0]
    /\ readyWrites = 0
    /\ readyReads = 0
    /\ wakebuf = 0
    /\ killed = {}
    /\ ret = -1
    /\ timePrinted = FALSE
    /\ start = NotRead
    /\ stop = NotRead

\* main, line 314-315: setjmp returns 0, total_children = 0
Setjmp ==
    /\ mainpc = "setjmp"
    /\ mainpc' = "group"
    /\ total_children' = 0
    /\ mi' = 0
    /\ gk' = 0
    /\ UNCHANGED <<cfg, stamps, child_tab,
                   signal_caught, handler, wpc, wdone, wterm, chan, readyWrites,
                   readyReads, wakebuf, killed, ret, timePrinted>>

\* create_worker called from group(): receivers fill slots tab_offset + i,
\* senders tab_offset + num_fds + i
CreateWorker ==
    /\ mainpc = "group"
    /\ mi < num_groups
    /\ gk < 2 * num_fds
    /\ LET s == total_children + gk IN
         /\ child_tab' = [child_tab EXCEPT ![s] =
                IF process_mode THEN [tag |-> "pid", id |-> PidOf(s)]
                                ELSE [tag |-> "threadid", id |-> s]]
         /\ wpc' = [wpc EXCEPT ![s] = "reset"]
    /\ gk' = gk + 1
    /\ UNCHANGED <<cfg, stamps, total_children, signal_caught, mainpc, mi, handler, wdone,
                   wterm, chan, readyWrites, readyReads, wakebuf, killed,
                   ret, timePrinted>>

\* group() returns num_fds * 2; main line 318 adds it to total_children
GroupReturn ==
    /\ mainpc = "group"
    /\ mi < num_groups
    /\ gk = 2 * num_fds
    /\ total_children' = total_children + 2 * num_fds
    /\ gk' = 0
    /\ IF mi + 1 < num_groups
         THEN mi' = mi + 1 /\ mainpc' = "group"
         ELSE mi' = 0 /\ mainpc' = "readready"
    /\ UNCHANGED <<cfg, stamps, child_tab,
                   signal_caught, handler, wpc, wdone, wterm, chan, readyWrites,
                   readyReads, wakebuf, killed, ret, timePrinted>>

\* main lines 328-331: one blocking read of a ready byte per worker
ReadReady ==
    /\ mainpc = "readready"
    /\ mi < total_children
    /\ readyWrites - readyReads > 0
    /\ readyReads' = readyReads + 1
    /\ IF mi + 1 < total_children
         THEN mi' = mi + 1 /\ mainpc' = "readready"
         ELSE mi' = 0 /\ mainpc' = "start"
    /\ UNCHANGED <<cfg, stamps, child_tab,
                   total_children, signal_caught, gk, handler, wpc, wdone, wterm,
                   chan, readyWrites, wakebuf, killed, ret, timePrinted>>

\* main line 333: get_mono_time(&start)
GetStart ==
    /\ mainpc = "start"
    /\ mainpc' = "wake"
    /\ start' = MonoTime
    /\ UNCHANGED <<cfg, stop, child_tab,
                   total_children, signal_caught, mi, gk, handler, wpc, wdone,
                   wterm, chan, readyWrites, readyReads, wakebuf, killed,
                   ret, timePrinted>>

\* main lines 336-337: the single wake byte
Wake ==
    /\ mainpc = "wake"
    /\ wakebuf' = wakebuf + 1
    /\ mainpc' = "reap"
    /\ mi' = 0
    /\ UNCHANGED <<cfg, stamps, child_tab,
                   total_children, signal_caught, gk, handler, wpc, wdone, wterm,
                   chan, readyWrites, readyReads, killed, ret, timePrinted>>

\* reap_workers lines 187-195 in process mode: wait() takes any terminated
\* child; with no child left it fails with ECHILD and the loop breaks
ReapWait ==
    /\ mainpc \in {"reap", "cleanup_wait"}
    /\ process_mode
    /\ mi < total_children
    /\ \/ \E z \in Slots :
             /\ wpc[z] = "exited"
             /\ wpc' = [wpc EXCEPT ![z] = "reaped"]
             /\ mi' = mi + 1
       \/ /\ \A s \in Slots : wpc[s] \in {"none", "reaped"}
          /\ mi' = total_children
          /\ UNCHANGED wpc
    /\ UNCHANGED <<cfg, stamps, child_tab, total_children, signal_caught, mainpc, gk,
                   handler, wdone, wterm, chan, readyWrites, readyReads, wakebuf,
                   killed, ret, timePrinted>>

\* reap_workers lines 187-195 in thread mode: pthread_join(child[i].threadid)
ReapJoin ==
    /\ mainpc \in {"reap", "cleanup_wait"}
    /\ ~process_mode
    /\ mi < total_children
    /\ wpc[child_tab[mi].id] = "exited"
    /\ wpc' = [wpc EXCEPT ![child_tab[mi].id] = "reaped"]
    /\ mi' = mi + 1
    /\ UNCHANGED <<cfg, stamps, child_tab, total_children, signal_caught, mainpc, gk,
                   handler, wdone, wterm, chan, readyWrites, readyReads, wakebuf,
                   killed, ret, timePrinted>>

\* reap_workers line 187: the loop for (i = 0; i < totchld; i++) has ended
ReapLoopEndedAnyTime(i, totchld) == i <= totchld

ReapLoopEnded(i, totchld) == i = totchld

\* main lines 344-346: reap_workers(.., 0) returned, get_mono_time(&stop)
GetStop ==
    /\ mainpc = "reap"
    /\ ReapLoopEnded(mi, total_children)
    /\ mainpc' = "print"
    /\ stop' = MonoTime
    /\ UNCHANGED <<cfg, start, child_tab, total_children, signal_caught, mi, gk, handler,
                   wpc, wdone, wterm, chan, readyWrites, readyReads, wakebuf,
                   killed, ret, timePrinted>>

\* main line 351: printf("Time: ...")
PrintTime ==
    /\ mainpc = "print"
    /\ timePrinted' = TRUE
    /\ mainpc' = "return"
    /\ UNCHANGED <<cfg, stamps, child_tab, total_children, signal_caught, mi, gk, handler,
                   wpc, wdone, wterm, chan, readyWrites, readyReads, wakebuf,
                   killed, ret>>

\* main lines 353-354: return 0
Return0 ==
    /\ mainpc = "return"
    /\ ret' = 0
    /\ mainpc' = "done"
    /\ UNCHANGED <<cfg, stamps, child_tab, total_children, signal_caught, mi, gk, handler,
                   wpc, wdone, wterm, chan, readyWrites, readyReads, wakebuf,
                   killed, timePrinted>>

\* main lines 339-341: reap_workers(.., 1) returned, return 1
Return1 ==
    /\ mainpc = "cleanup_wait"
    /\ ReapLoopEnded(mi, total_children)
    /\ ret' = 1
    /\ mainpc' = "done"
    /\ UNCHANGED <<cfg, stamps, child_tab, total_children, signal_caught, mi, gk, handler,
                   wpc, wdone, wterm, chan, readyWrites, readyReads, wakebuf,
                   killed, timePrinted>>

\* the slots reap_workers walks: i < totchld
Counted == {i \in Slots : i < total_children}

\* the sets of pids the kill() loop can receive: child[i].pid of every counted
\* slot.  A slot written through .threadid yields bits that are no child's pid.
KillTargets ==
    LET pids == {child_tab[i].id : i \in {c \in Counted : child_tab[c].tag = "pid"}}
        other == {c \in Counted : child_tab[c].tag # "pid"}
    IN IF other = {} THEN {pids}
       ELSE {pids \cup G : G \in (SUBSET OtherPids) \ {{}}}

\* SIGINT or SIGTERM arrives at the main process (lines 247-252, 310-311).
\* sigcatcher: signal_caught = 1, signal(sig, SIG_IGN), longjmp to line 314,
\* where setjmp now returns 1.  Before setjmp has run the jump buffer is
\* uninitialised and the jump is undefined: the process may crash or land in
\* the cleanup branch.
Signal(sig) ==
    /\ mainpc \notin {"done", "killed"}
    /\ handler[sig] # "SIG_IGN"
    /\ IF handler[sig] = "sigcatcher"
         THEN /\ signal_caught' = TRUE
              /\ handler' = [handler EXCEPT ![sig] = "SIG_IGN"]
              /\ IF mainpc = "setjmp"
                   THEN mainpc' \in {"kill", "killed"}
                   ELSE mainpc' = "kill"
         ELSE /\ mainpc' = "killed"
              /\ UNCHANGED <<signal_caught, handler>>
    /\ UNCHANGED <<cfg, stamps, child_tab, total_children, mi, gk, wpc, wdone, wterm,
                   chan, readyWrites, readyReads, wakebuf, killed, ret,
                   timePrinted>>

\* reap_workers lines 181-185: signal(SIGTERM, SIG_IGN), then kill(child[i].pid,
\* SIGTERM) for every i < totchld
KillAll ==
    /\ mainpc = "kill"
    /\ handler' = [handler EXCEPT !["SIGTERM"] = "SIG_IGN"]
    /\ \E T \in KillTargets :
         /\ killed' = killed \cup T
         /\ wterm' = [s \in Slots |->
                        wterm[s] \/ (/\ process_mode
                                     /\ wpc[s] \notin {"none", "exited", "reaped"}
                                     /\ PidOf(s) \in T)]
    /\ mainpc' = "cleanup_wait"
    /\ mi' = 0
    /\ UNCHANGED <<cfg, stamps, child_tab, total_children, signal_caught, gk, wpc, wdone,
                   chan, readyWrites, readyReads, wakebuf, ret, timePrinted>>
(* ------------------------------ workers -------------------------------- *)

\* a worker runs unless its process is gone; a forked worker for which a
\* SIGTERM is pending may still take steps before the signal is delivered
Runs(s) == Alive(s)

\* reset_worker_signals, lines 112-115.  A forked worker resets its own
\* dispositions; a thread resets those of the one process it shares with main.
ResetWorkerSignals(s) ==
    /\ wpc[s] = "reset"
    /\ Runs(s)
    /\ wpc' = [wpc EXCEPT ![s] = "ready"]
    /\ handler' = IF process_mode THEN handler
                                  ELSE [g \in Signals |-> "SIG_DFL"]
    /\ UNCHANGED <<cfg, stamps, child_tab, total_children, signal_caught, mainpc, mi, gk,
                   wdone, wterm, chan, readyWrites, readyReads, wakebuf, killed, ret, timePrinted>>

\* ready(), lines 102-104: write the ready byte
ReadyWrite(s) ==
    /\ wpc[s] = "ready"
    /\ Runs(s)
    /\ readyWrites' = readyWrites + 1
    /\ wpc' = [wpc EXCEPT ![s] = "poll"]
    /\ UNCHANGED <<cfg, stamps, child_tab, total_children, signal_caught, mainpc, mi, gk,
                   handler, wdone, wterm, chan, readyReads, wakebuf, killed,
                   ret, timePrinted>>

\* a poll that does not wait for the wake byte
WakeReadableAlways == TRUE

\* poll(&pfd, 1, -1) reports POLLIN on wakefd once a byte is buffered there
WakeReadable == wakebuf > 0

\* bytes a sender writes in all: loops * num_fds messages of datasize bytes
SenderTotal == loops * num_fds * datasize
\* a receiver that expects one message more than the senders write
ReceiverTotalOneMore == (num_fds * loops + 1) * datasize

\* bytes a receiver reads in all: num_packets = num_fds * loops messages
ReceiverTotal == num_fds * loops * datasize

\* ready(), lines 106-108: poll returns 1; a worker with nothing to transfer
\* returns at once
PollReturn(s) ==
    /\ wpc[s] = "poll"
    /\ Runs(s)
    /\ WakeReadable
    /\ wpc' = [wpc EXCEPT ![s] = "run"]
    /\ UNCHANGED <<cfg, stamps, child_tab, total_children, signal_caught, mainpc, mi, gk,
                   handler, wdone, wterm, chan, readyWrites, readyReads, wakebuf,
                   killed, ret, timePrinted>>

\* sender, lines 125-135: one write() of the inner while loop.  It blocks
\* while the receiver's buffer is full and may transfer fewer bytes than asked.
\* After the last byte the sender returns (and, as a process, exits).
SenderWrite(s) ==
    /\ wpc[s] = "run"
    /\ ~IsReceiver(s)
    /\ Runs(s)
    /\ wdone[s] < SenderTotal
    /\ LET j == (wdone[s] \div datasize) % num_fds
           r == ReceiverSlot(GroupOf(s), j)
           left == datasize - (wdone[s] % datasize)
       IN /\ chan[r] < ChanCap
          /\ \E b \in 1 .. Min(left, ChanCap - chan[r]) :
               /\ chan' = [chan EXCEPT ![r] = @ + b]
               /\ wdone' = [wdone EXCEPT ![s] = @ + b]
               /\ wpc' = [wpc EXCEPT ![s] =
                            IF wdone[s] + b = SenderTotal THEN "exited" ELSE "run"]
    /\ UNCHANGED <<cfg, stamps, child_tab, total_children, signal_caught, mainpc, mi, gk,
                   handler, wterm, readyWrites, readyReads, wakebuf, killed,
                   ret, timePrinted>>

\* receiver, lines 147-157: one read() of the inner while loop
ReceiverRead(s) ==
    /\ wpc[s] = "run"
    /\ IsReceiver(s)
    /\ Runs(s)
    /\ wdone[s] < ReceiverTotal
    /\ chan[s] > 0
    /\ LET left == datasize - (wdone[s] % datasize)
       IN \E b \in 1 .. Min(left, chan[s]) :
               /\ chan' = [chan EXCEPT ![s] = @ - b]
               /\ wdone' = [wdone EXCEPT ![s] = @ + b]
               /\ wpc' = [wpc EXCEPT ![s] =
                            IF wdone[s] + b = ReceiverTotal THEN "exited" ELSE "run"]
    /\ UNCHANGED <<cfg, stamps, child_tab, total_children, signal_caught, mainpc, mi, gk,
                   handler, wterm, readyWrites, readyReads, wakebuf, killed,
                   ret, timePrinted>>

\* SIGTERM reaches a forked worker.  After reset_worker_signals the
\* disposition is SIG_DFL and the worker terminates.  Before it, the worker
\* still has the sigcatcher it inherited over fork(): it jumps to its copy of
\* main's cleanup branch, where reap_workers signals the child_tab entries
\* below the total_children it inherited, finds no child to wait for, and
\* main returns 1.
WorkerTerm(s) ==
    /\ wterm[s]
    /\ wpc[s] \in {"reset", "ready", "poll", "run"}
    /\ wpc' = [wpc EXCEPT ![s] = "exited"]
    /\ LET inherited == {i \in Slots : i < GroupOf(s) * 2 * num_fds}
       IN IF wpc[s] = "reset"
            THEN /\ killed' = killed \cup {child_tab[i].id : i \in inherited}
                 /\ wterm' = [i \in Slots |->
                                IF i = s THEN FALSE
                                ELSE wterm[i] \/ (i \in inherited /\
                                        wpc[i] \notin {"none", "exited", "reaped"})]
            ELSE /\ killed' = killed
                 /\ wterm' = [wterm EXCEPT ![s] = FALSE]
    /\ UNCHANGED <<cfg, stamps, child_tab, total_children, signal_caught, mainpc, mi, gk,
                   handler, wdone, chan, readyWrites, readyReads, wakebuf,
                   ret, timePrinted>>

HBNext ==
    \/ Setjmp
    \/ CreateWorker
    \/ GroupReturn
    \/ ReadReady
    \/ GetStart
    \/ Wake
    \/ ReapWait
    \/ ReapJoin
    \/ GetStop
    \/ PrintTime
    \/ Return0
    \/ Return1
    \/ KillAll
    \/ \E sig \in Signals : Signal(sig)
    \/ \E s \in Slots : ResetWorkerSignals(s)
    \/ \E s \in Slots : ReadyWrite(s)
    \/ \E s \in Slots : PollReturn(s)
    \/ \E s \in Slots : SenderWrite(s)
    \/ \E s \in Slots : ReceiverRead(s)
    \/ \E s \in Slots : WorkerTerm(s)

HBSpec == HBInit /\ [][HBNext]_vars

\* The runs in which no signal arrives: main never enters its cleanup branch
\* and no worker is sent SIGTERM.
HBNoSignalNext ==
    \/ Setjmp
    \/ CreateWorker
    \/ GroupReturn
    \/ ReadReady
    \/ GetStart
    \/ Wake
    \/ ReapWait
    \/ ReapJoin
    \/ GetStop
    \/ PrintTime
    \/ Return0
    \/ \E s \in Slots : ResetWorkerSignals(s)
    \/ \E s \in Slots : ReadyWrite(s)
    \/ \E s \in Slots : PollReturn(s)
    \/ \E s \in Slots : SenderWrite(s)
    \/ \E s \in Slots : ReceiverRead(s)

\* Fair scheduling, in its weakest form: while some process or thread can take
\* a step, one of them eventually does.  (Fairness to each process separately
\* allows fewer runs, so what holds here holds there.)
HBNoSignalFair ==
    /\ HBInit
    /\ [][HBNoSignalNext]_vars
    /\ WF_vars(HBNoSignalNext)

(* ------------------------- hackbench: claims --------------------------- *)

\* C1: no sender has written data and no receiver has read data unless every
\* one of the num_groups * 2 * num_fds workers has written its ready byte,
\* main has read all of those bytes, and main has written the wake byte.
HB_StartupBarrier ==
    \A s \in Slots :
        wdone[s] > 0 => /\ readyWrites = NWorkers
                        /\ readyReads = NWorkers
                        /\ wakebuf >= 1

\* C1 witness: with two or more workers per side, a sender has written and a
\* receiver has read
HB_StartupBarrierWitness ==
    /\ NWorkers >= 4
    /\ \E s \in Slots : IsReceiver(s) /\ wdone[s] > 0
    /\ \E s \in Slots : s < NWorkers /\ ~IsReceiver(s) /\ wdone[s] > 0

\* main has reaped every worker, printed the Time line and returned 0, and
\* every worker has transferred all its bytes
HBFinished ==
    /\ mainpc = "done"
    /\ ret = 0
    /\ timePrinted
    /\ readyReads = NWorkers
    /\ wakebuf = 1
    /\ \A s \in Slots : s < NWorkers =>
          /\ wpc[s] = "reaped"
          /\ wdone[s] = IF IsReceiver(s) THEN ReceiverTotal ELSE SenderTotal

\* C2: under fair scheduling every run in which no signal arrives and no
\* system call fails ends with the barrier passed, every worker finished and
\* reaped, the Time line printed and main returning 0.
HB_NoDeadlock == <>[]HBFinished

\* C2 witness: a finished run of four or more workers
HB_NoDeadlockWitness == HBFinished /\ NWorkers >= 4

\* C3 as claimed: in process mode, once main has caught a signal and returned,
\* it returned 1, printed no Time line, and every child forked so far was
\* sent SIGTERM and waited for.
HB_SignalCleanup ==
    (process_mode /\ signal_caught /\ mainpc = "done") =>
        /\ ret = 1
        /\ ~timePrinted
        /\ \A s \in Forked : PidOf(s) \in killed /\ wpc[s] = "reaped"

\* the pids fork() has returned for workers of this run
ForkedPids == IF process_mode THEN {PidOf(s) : s \in Forked} ELSE {}

\* C4 as claimed: every pid passed to kill() is one that fork() returned for a
\* worker of this run.
HB_KillOnlyChildren == killed \subseteq ForkedPids

\* what worker s moves in a complete run
WorkerTotal(s) == IF IsReceiver(s) THEN ReceiverTotal ELSE SenderTotal

\* C11: the two timestamps bracket the whole transfer.  Until start is read no
\* worker has moved a byte and the wake byte is unwritten; start is read only
\* once main has read the ready byte of every worker; once stop is read every
\* worker has moved all its bytes and has been reaped or joined, and the
\* clock never moves past the stop reading, so every data read and write lies
\* between the two readings.
HB_MeasuresWholeTransfer ==
    /\ start = NotRead => (MonoTime = 0 /\ wakebuf = 0 /\ stop = NotRead)
    /\ start # NotRead => (start = 0 /\ readyReads = NWorkers)
    /\ stop # NotRead =>
          /\ stop = MonoTime
          /\ \A s \in Slots : s < NWorkers =>
                 wpc[s] = "reaped" /\ wdone[s] = WorkerTotal(s)

\* both timestamps read around a transfer of two groups' worth of workers
HB_MeasuresWholeTransferWitness ==
    /\ stop # NotRead
    /\ stop > start
    /\ NWorkers >= 4
    /\ timePrinted

\* the workers that have returned from reset_worker_signals
HasReset == {s \in Slots : wpc[s] \notin {"none", "reset"}}

\* C12 as claimed: reset_worker_signals changes the handlers of the calling
\* worker only.  In both modes, once any worker has called it and as long as
\* main is running and has caught no signal, sigcatcher is still what runs
\* when SIGINT or SIGTERM is delivered to main.
HB_ResetWorkersOnly ==
    (HasReset # {} /\ ~signal_caught /\ mainpc \notin {"done", "killed"}) =>
        \A g \in Signals : handler[g] = "sigcatcher"
(* ============================ pipe-latency ============================= *)

PLMaxLoops == 3

\* main lines 170-179: worker 0 reads pipe_1 and writes pipe_2, worker 1
\* writes pipe_1 and reads pipe_2
PipeRead(t) == IF t = 0 THEN 1 ELSE 2
PipeWrite(t) == IF t = 0 THEN 2 ELSE 1

\* a worker 0 that writes before it reads
FirstOpWrite(t) == "write"

\* a worker 1 that reads before it writes
FirstOpRead(t) == "read"

\* worker_thread lines 129-141: worker 0 reads then writes, worker 1 writes
\* then reads
FirstOp(t) == IF t = 0 THEN "read" ELSE "write"
SecondOp(t) == IF FirstOp(t) = "read" THEN "write" ELSE "read"

\* pipe-latency after parse_options, both pipe() calls and the thread_data
\* setup (lines 165-179)
PLInit ==
    /\ HBIdle
    /\ PBIdle
    /\ threaded \in BOOLEAN
    /\ pl_loops \in 0 .. PLMaxLoops
    /\ plmain = "start"
    /\ plt = 0
    /\ td_pc = [t \in 0 .. 1 |-> "none"]
    /\ td_i = [t \in 0 .. 1 |-> 0]
    /\ td_m = [t \in 0 .. 1 |-> 0]
    /\ pipes = [q \in 1 .. 2 |-> <<>>]
    /\ nwrites = [t \in 0 .. 1 |-> 0]

\* main lines 181-183: get_mono_time(&start), then the threaded or forking branch
PLStart ==
    /\ plmain = "start"
    /\ plmain' = IF threaded THEN "create" ELSE "fork"
    /\ UNCHANGED <<hbvars, pbvars, threaded, pl_loops, plt, td_pc, td_i, td_m,
                   pipes, nwrites>>

\* main lines 184-187: pthread_create for t = 0, 1
PLCreate ==
    /\ plmain = "create"
    /\ plt < 2
    /\ td_pc' = [td_pc EXCEPT ![plt] = "loop"]
    /\ IF plt + 1 < 2 THEN plt' = plt + 1 /\ plmain' = "create"
                      ELSE plt' = 0 /\ plmain' = "join"
    /\ UNCHANGED <<hbvars, pbvars, threaded, pl_loops, td_i, td_m, pipes, nwrites>>

\* main lines 189-192: pthread_join for t = 0, 1
PLJoin ==
    /\ plmain = "join"
    /\ plt < 2
    /\ td_pc[plt] = "returned"
    /\ td_pc' = [td_pc EXCEPT ![plt] = "joined"]
    /\ IF plt + 1 < 2 THEN plt' = plt + 1 /\ plmain' = "join"
                      ELSE plt' = 0 /\ plmain' = "report"
    /\ UNCHANGED <<hbvars, pbvars, threaded, pl_loops, td_i, td_m, pipes, nwrites>>

\* main lines 194-202: fork(); the child runs worker 0 and exits, the parent
\* runs worker 1 itself
PLFork ==
    /\ plmain = "fork"
    /\ td_pc' = [t \in 0 .. 1 |-> "loop"]
    /\ plmain' = "worker"
    /\ UNCHANGED <<hbvars, pbvars, threaded, pl_loops, plt, td_i, td_m, pipes,
                   nwrites>>

\* main lines 204-206: the parent's worker_thread call has returned and
\* waitpid() collects the exited child
PLWaitpid ==
    /\ plmain = "worker"
    /\ td_pc[1] = "returned"
    /\ td_pc[0] = "returned"
    /\ td_pc' = [td_pc EXCEPT ![0] = "joined"]
    /\ plmain' = "report"
    /\ UNCHANGED <<hbvars, pbvars, threaded, pl_loops, plt, td_i, td_m, pipes,
                   nwrites>>

\* main lines 209-223: get_mono_time(&stop), the report, return 0
PLReport ==
    /\ plmain = "report"
    /\ plmain' = "done"
    /\ UNCHANGED <<hbvars, pbvars, threaded, pl_loops, plt, td_pc, td_i, td_m,
                   pipes, nwrites>>

\* worker_thread line 128: the for loop's test; line 144: return NULL
WorkerLoop(t) ==
    /\ td_pc[t] = "loop"
    /\ td_pc' = [td_pc EXCEPT ![t] = IF td_i[t] < pl_loops THEN "first" ELSE "returned"]
    /\ UNCHANGED <<hbvars, pbvars, threaded, pl_loops, plmain, plt, td_i, td_m,
                   pipes, nwrites>>

\* read(td->pipe_read, &m, sizeof(int)): blocks while the pipe is empty
\* write(td->pipe_write, &m, sizeof(int)): an int always fits
WorkerOp(t, op) ==
    IF op = "read"
      THEN /\ Len(pipes[PipeRead(t)]) > 0
           /\ td_m' = [td_m EXCEPT ![t] = Head(pipes[PipeRead(t)])]
           /\ pipes' = [pipes EXCEPT ![PipeRead(t)] = Tail(@)]
           /\ UNCHANGED nwrites
      ELSE /\ pipes' = [pipes EXCEPT ![PipeWrite(t)] = Append(@, td_m[t])]
           /\ nwrites' = [nwrites EXCEPT ![t] = @ + 1]
           /\ UNCHANGED td_m

\* worker_thread lines 131-132 (worker 0), 137-138 (worker 1)
WorkerFirst(t) ==
    /\ td_pc[t] = "first"
    /\ WorkerOp(t, FirstOp(t))
    /\ td_pc' = [td_pc EXCEPT ![t] = "second"]
    /\ UNCHANGED <<hbvars, pbvars, threaded, pl_loops, plmain, plt, td_i>>

\* worker_thread lines 133-134 (worker 0), 139-140 (worker 1), then i++
WorkerSecond(t) ==
    /\ td_pc[t] = "second"
    /\ WorkerOp(t, SecondOp(t))
    /\ td_pc' = [td_pc EXCEPT ![t] = "loop"]
    /\ td_i' = [td_i EXCEPT ![t] = @ + 1]
    /\ UNCHANGED <<hbvars, pbvars, threaded, pl_loops, plmain, plt>>

PLMainStep == PLStart \/ PLCreate \/ PLJoin \/ PLFork \/ PLWaitpid \/ PLReport
PLWorkerStep(t) == WorkerLoop(t) \/ WorkerFirst(t) \/ WorkerSecond(t)

PLNext ==
    \/ PLStart
    \/ PLCreate
    \/ PLJoin
    \/ PLFork
    \/ PLWaitpid
    \/ PLReport
    \/ \E t \in 0 .. 1 : WorkerLoop(t)
    \/ \E t \in 0 .. 1 : WorkerFirst(t)
    \/ \E t \in 0 .. 1 : WorkerSecond(t)

PLSpec == PLInit /\ [][PLNext]_vars

\* the scheduler runs main and both workers whenever they are runnable
PLFair ==
    /\ PLSpec
    /\ WF_vars(PLMainStep)
    /\ \A t \in 0 .. 1 : WF_vars(PLWorkerStep(t))

(* ----------------------- pipe-latency: claims -------------------------- *)

\* C5: at every moment at most one int is buffered in pipe_1 and pipe_2
\* together, and worker 0's k-th write comes after worker 1's k-th write and
\* before worker 1's (k+1)-th write: worker 0 never has more writes than
\* worker 1, and worker 1 is never more than one write ahead.
PL_PingPong ==
    /\ Len(pipes[1]) + Len(pipes[2]) <= 1
    /\ nwrites[0] <= nwrites[1]
    /\ nwrites[1] <= nwrites[0] + 1

\* C5 witness: the second round trip is under way in process mode, worker 0's
\* answer is in pipe_2
PL_PingPongWitness ==
    /\ ~threaded
    /\ nwrites[0] = 2
    /\ nwrites[1] = 2
    /\ Len(pipes[2]) = 1

\* both workers ran pl_loops iterations and returned, the pipes are empty, main
\* has joined or waited for them and has printed the report
PLFinished ==
    /\ plmain = "done"
    /\ \A t \in 0 .. 1 : td_i[t] = pl_loops /\ nwrites[t] = pl_loops
    /\ td_pc[0] = "joined"
    /\ td_pc[1] = IF threaded THEN "joined" ELSE "returned"
    /\ pipes[1] = <<>>
    /\ pipes[2] = <<>>

\* C6: under fair scheduling every run ends with both workers having done
\* exactly pl_loops iterations, both pipes empty, and main past the join or
\* wait and at the report.
PL_Terminates == <>[]PLFinished

\* C6 witness: a finished threaded run of several iterations
PL_TerminatesWitness == PLFinished /\ threaded /\ pl_loops >= 2
(* ============================== pipebench ============================== *)

PBMaxOpts == 2
PBMaxInput == 2
PBMaxBuf == 2
PBMaxClock == 1
PBMaxFaults == 1

\* the options that decide what is copied, reported and returned
PBOptions == {"e", "q", "Q", "o", "r"}
PBBytes == {0, 1}

SeqsUpTo(S, k) == UNION {[1 .. m -> S] : m \in 0 .. k}

\* main lines 553-576: what one option does to errout, quiet, summary, fancy
ApplyOpt(f, c) ==
    CASE c = "e" -> [f EXCEPT !.errout = 1]
      [] c = "q" -> [f EXCEPT !.quiet = 1]
      [] c = "Q" -> [f EXCEPT !.quiet = 1, !.summary = 0]
      [] c = "o" -> [f EXCEPT !.summary = 0]
      [] c = "r" -> [f EXCEPT !.fancy = 0, !.summary = 0]

\* main lines 539-542, 552: the getopt loop over the whole command line
RECURSIVE ParseOpts(_, _)
ParseOpts(f, args) ==
    IF args = <<>> THEN f ELSE ParseOpts(ApplyOpt(f, Head(args)), Tail(args))

\* main line 630: the test that is meant to detect a failed fread
FreadReportsError(r) == r = -1
\* main line 638: the test that is meant to detect a failed fwrite
FwriteReportsError(r) == r = -1

\* a loop test that forgets the done flag
LoopContinuesIgnoringDone == ~feof_stdin

\* main line 626: while (!feof(stdin) && !done)
LoopContinues == ~feof_stdin /\ done = 0

\* an fwrite of the whole buffer instead of the n bytes just read
WrittenWholeBuffer(buf, k) == buf

\* main line 638: fwrite(buffer, n, 1, stdout) hands over the first n bytes
Written(buf, k) == SubSeq(buf, 1, k)

\* pipebench as main starts: the command line, the bytes waiting on stdin and
\* the buffer size given with -b (at least 1, so that fread can make progress)
\* are the run's inputs
PBInit ==
    /\ HBIdle
    /\ PLIdle
    /\ argv \in SeqsUpTo(PBOptions, PBMaxOpts)
    /\ input \in SeqsUpTo(PBBytes, PBMaxInput)
    /\ bufsize \in 1 .. PBMaxBuf
    /\ errout = 0
    /\ quiet = 0
    /\ summary = 1
    /\ fancy = 1
    /\ pbpc = "getopt"
    /\ done = 0
    /\ feof_stdin = FALSE
    /\ inpos = 0
    /\ buffer = [i \in 1 .. bufsize |-> 0]
    /\ n = 0
    /\ datalen = 0
    /\ last_datalen = 0
    /\ speed = 0
    /\ out = <<>>
    /\ statuslog = <<>>
    /\ clock = 0
    /\ tv = 0
    /\ tv2 = 0
    /\ faults = 0
    /\ readFailed = FALSE
    /\ writeFailed = FALSE
    /\ pbret = -1

\* main lines 552-624: option parsing, the first gettimeofday calls,
\* signal(SIGINT, sigint) and the buffer allocation
PBGetopt ==
    /\ pbpc = "getopt"
    /\ LET f == ParseOpts([errout |-> errout, quiet |-> quiet,
                           summary |-> summary, fancy |-> fancy], argv)
       IN /\ errout' = f.errout
          /\ quiet' = f.quiet
          /\ summary' = f.summary
          /\ fancy' = f.fancy
    /\ pbpc' = "loop"
    /\ UNCHANGED <<hbvars, plvars, argv, input, bufsize, done, feof_stdin, inpos,
                   buffer, n, datalen, last_datalen, speed, out, statuslog, clock,
                   tv, tv2, faults, readFailed, writeFailed, pbret>>

\* sigint, lines 414-418: done = 1
PBSigint ==
    /\ pbpc \in {"loop", "fread", "fwrite", "status", "summary"}
    /\ done = 0
    /\ done' = 1
    /\ UNCHANGED <<hbvars, plvars, argv, input, bufsize, errout, quiet, summary,
                   fancy, pbpc, feof_stdin, inpos, buffer, n, datalen,
                   last_datalen, speed, out, statuslog, clock, tv, tv2, faults,
                   readFailed, writeFailed, pbret>>

\* main line 626: the copy loop's test
PBLoopTest ==
    /\ pbpc = "loop"
    /\ pbpc' = IF LoopContinues THEN "fread" ELSE "summary"
    /\ UNCHANGED <<hbvars, plvars, argv, input, bufsize, errout, quiet, summary,
                   fancy, done, feof_stdin, inpos, buffer, n, datalen,
                   last_datalen, speed, out, statuslog, clock, tv, tv2, faults,
                   readFailed, writeFailed, pbret>>

\* main lines 630-637: n = fread(buffer, 1, bufsize, stdin).  fread returns
\* bufsize items, or fewer when it meets end-of-file (feof becomes true) or a
\* read error (a short item count; feof stays false).
PBFread ==
    /\ pbpc = "fread"
    /\ \E k \in 0 .. Min(bufsize, Len(input) - inpos) :
       \E how \in {"full", "eof", "error"} :
         /\ how = "full" => k = bufsize
         /\ how = "eof" => k < bufsize /\ k = Len(input) - inpos
         /\ how = "error" => k < bufsize /\ faults < PBMaxFaults
         /\ feof_stdin' = (how = "eof")
         /\ readFailed' = (readFailed \/ how = "error")
         /\ faults' = IF how = "error" THEN faults + 1 ELSE faults
         /\ buffer' = SubSeq(input, inpos + 1, inpos + k) \o
                      SubSeq(buffer, k + 1, Len(buffer))
         /\ inpos' = inpos + k
         /\ n' = k
         /\ IF FreadReportsError(k)
              THEN IF errout = 1
                     THEN pbret' = 1 /\ pbpc' = "exit" /\ UNCHANGED datalen
                     ELSE pbpc' = "loop" /\ UNCHANGED <<pbret, datalen>>
              ELSE /\ datalen' = datalen + k
                   /\ pbpc' = "fwrite"
                   /\ UNCHANGED pbret
    /\ UNCHANGED <<hbvars, plvars, argv, input, bufsize, errout, quiet, summary,
                   fancy, done, last_datalen, speed, out, statuslog, clock, tv,
                   tv2, writeFailed>>

\* main lines 638-643: fwrite(buffer, n, 1, stdout) returns the number of items
\* written: 1, or 0 when n is 0 or when the write fails, in which case only
\* some of the bytes have reached stdout
PBFwrite ==
    /\ pbpc = "fwrite"
    /\ \E ok \in BOOLEAN :
       \E k \in 0 .. Len(Written(buffer, n)) :
         /\ ok => k = Len(Written(buffer, n))
         /\ ~ok => k < Len(Written(buffer, n)) /\ faults < PBMaxFaults
         /\ out' = out \o SubSeq(Written(buffer, n), 1, k)
         /\ writeFailed' = (writeFailed \/ ~ok)
         /\ faults' = IF ok THEN faults ELSE faults + 1
         /\ LET r == IF ok /\ n > 0 THEN 1 ELSE 0
            IN IF FwriteReportsError(r)
                 THEN IF errout = 1
                        THEN pbret' = 1 /\ pbpc' = "exit"
                        ELSE pbpc' = "fwrite" /\ UNCHANGED pbret
                 ELSE pbpc' = "status" /\ UNCHANGED pbret
    /\ UNCHANGED <<hbvars, plvars, argv, input, bufsize, errout, quiet, summary,
                   fancy, done, feof_stdin, inpos, buffer, n, datalen,
                   last_datalen, speed, statuslog, clock, tv, tv2, readFailed>>

\* main lines 648-680: gettimeofday(&tv2), the status line when fancy and not
\* quiet, and once the second has changed the new speed and, when not fancy,
\* the speed line
PBStatus ==
    /\ pbpc = "status"
    /\ \E now \in clock .. Min(clock + 1, PBMaxClock) :
         /\ clock' = now
         /\ tv2' = now
         /\ LET line == IF fancy = 1 /\ quiet = 0 THEN <<"status">> ELSE <<>>
            IN IF tv # now
                 THEN /\ speed' = datalen - last_datalen
                      /\ last_datalen' = datalen
                      /\ tv' = now
                      /\ statuslog' = statuslog \o line \o
                                      (IF fancy = 0 THEN <<"speed">> ELSE <<>>)
                 ELSE /\ statuslog' = statuslog \o line
                      /\ UNCHANGED <<speed, last_datalen, tv>>
    /\ pbpc' = "loop"
    /\ UNCHANGED <<hbvars, plvars, argv, input, bufsize, errout, quiet, summary,
                   fancy, done, feof_stdin, inpos, buffer, n, datalen, out,
                   faults, readFailed, writeFailed, pbret>>

\* main lines 682-707: free(buffer), the summary when it is wanted, return 0
PBSummary ==
    /\ pbpc = "summary"
    /\ statuslog' = IF summary = 1 THEN Append(statuslog, "summary") ELSE statuslog
    /\ pbret' = 0
    /\ pbpc' = "exit"
    /\ UNCHANGED <<hbvars, plvars, argv, input, bufsize, errout, quiet, summary,
                   fancy, done, feof_stdin, inpos, buffer, n, datalen,
                   last_datalen, speed, out, clock, tv, tv2, faults, readFailed,
                   writeFailed>>

PBNext ==
    \/ PBGetopt
    \/ PBSigint
    \/ PBLoopTest
    \/ PBFread
    \/ PBFwrite
    \/ PBStatus
    \/ PBSummary

PBSpec == PBInit /\ [][PBNext]_vars
(* ------------------------- pipebench: claims --------------------------- *)

\* the copy loop has ended and stdin is at end-of-file
PBLoopEndedAtEof == pbpc \in {"summary", "exit"} /\ feof_stdin

\* C7: when the copy loop ends at end-of-file, however fread split the input
\* into chunks, datalen is the number of bytes read, all of the input has been
\* read, and (every fwrite having taken its bytes) stdout holds exactly the
\* bytes of stdin, in order.
PB_Transparent ==
    PBLoopEndedAtEof =>
        /\ inpos = Len(input)
        /\ datalen = Len(input)
        /\ (~writeFailed => out = input)

\* C7 witness: an input of several bytes went through in more than one chunk
PB_TransparentWitness ==
    /\ pbpc = "exit"
    /\ feof_stdin
    /\ Len(input) >= 2
    /\ bufsize < Len(input)
    /\ out = input
    /\ input[1] # input[2]

\* C8 as claimed: with -e, main does not return 0 after a failed read or a
\* failed write.
PB_FailureStatus ==
    (pbpc = "exit" /\ errout = 1 /\ (readFailed \/ writeFailed)) => pbret = 1

\* C9 as claimed: with -q on the command line nothing but the final summary
\* is written to the status stream.
PB_QuietLoop ==
    (\E i \in 1 .. Len(argv) : argv[i] = "q") =>
        \A j \in 1 .. Len(statuslog) : statuslog[j] = "summary"

\* C10: once sigint has set done, the loop test starts no further iteration;
\* and when main has then returned, it returned 0, the summary is the last
\* thing on the status stream exactly when it was not suppressed, and (every
\* fwrite having taken its bytes) every byte read has been written to stdout.
PB_Sigint ==
    /\ [][(done = 1 /\ pbpc = "loop") => pbpc' # "fread"]_vars
    /\ []((done = 1 /\ pbpc = "exit") =>
            /\ pbret = 0
            /\ (summary = 1 <=> (statuslog # <<>> /\
                                 statuslog[Len(statuslog)] = "summary"))
            /\ (~writeFailed => out = SubSeq(input, 1, inpos)))

\* C10 witness: SIGINT arrived in the middle of an iteration, before
\* end-of-file; the bytes of that iteration were written and main returned
PB_SigintWitness ==
    /\ done = 1
    /\ pbpc = "exit"
    /\ ~feof_stdin
    /\ inpos > 0
    /\ inpos < Len(input)
    /\ out = SubSeq(input, 1, inpos)
    /\ summary = 1
====
